---- MODULE Spec2Model ----
(***************************************************************************)
(* Alpha-beta minimax player of t3_player.py: choose, alphabeta,           *)
(* best_choice_max and best_choice_min, run as a stack machine over an     *)
(* abstract game tree (the T3State the player is handed).                  *)
(*                                                                         *)
(* Utilities are kept in half points so that they are integers:           *)
(* 0 is the code's 0, 1 is the code's 0.5, 2 is the code's 1.  The code    *)
(* only compares utilities (<, >, ==, <=, max, min), so any order-         *)
(* preserving scale behaves the same; -inf and +inf sit below and above.   *)
(***************************************************************************)
EXTENDS Integers, Sequences, FiniteSets, TLC

\* Largest number of positions in a game tree handed to choose.
MaxNodes == 6
\* Largest number of transitions of one position.
MaxMoves == 3

\* float('-inf') and float('inf'), below and above every utility.
NegInf == -1
PosInf == 3
\* The three utilities the terminal test returns, in half points.
Loss == 0
Tie == 1
Win == 2
\* Python's None in the action slot of a triple; real actions are 1, 2, ...
None == 0

Utilities == {Loss, Tie, Win}

max(x, y) == IF x >= y THEN x ELSE y
min(x, y) == IF x <= y THEN x ELSE y

(***************************************************************************)
(* The state abstraction (T3State): a position reports is_win, is_tie and  *)
(* its transitions, a sequence of <<action, child>> pairs with distinct,   *)
(* totally ordered actions, enumerated in any order.  A terminal position  *)
(* has no transitions and a non-terminal one has at least one.             *)
(***************************************************************************)
is_win(s) == s.win
is_tie(s) == s.tie
get_transitions(s) == s.moves

Terminal(win) == [win |-> win, tie |-> ~win, moves |-> <<>>]

\* The orders in which k transitions with actions 1..k can be enumerated.
Orders(k) == {p \in [1..k -> 1..k] : \A i, j \in 1..k : i # j => p[i] # p[j]}

RECURSIVE Label(_, _)
\* The forest f as transitions, its i-th tree reached by action p[i].
Label(p, f) ==
    IF f = <<>> THEN <<>>
    ELSE Append(Label(p, SubSeq(f, 1, Len(f) - 1)), <<p[Len(f)], f[Len(f)]>>)

Position(moves) == [win |-> FALSE, tie |-> FALSE, moves |-> moves]

RECURSIVE TreesOfSize(_), Forests(_, _)
\* Every position whose game tree holds exactly n positions.
TreesOfSize(n) ==
    IF n = 1 THEN {Terminal(TRUE), Terminal(FALSE)}
    ELSE UNION {{Position(Label(p, f)) : f \in Forests(n - 1, k), p \in Orders(k)}
                : k \in 1..min(MaxMoves, n - 1)}
\* Every sequence of k game trees holding n positions together.
Forests(n, k) ==
    IF k = 0 THEN (IF n = 0 THEN {<<>>} ELSE {})
    ELSE UNION {{<<t>> \o f : t \in TreesOfSize(m), f \in Forests(n - m, k - 1)}
                : m \in 1..(n - k + 1)}

\* s is a position whose game tree holds at most MaxNodes positions, none of
\* them with more than MaxMoves transitions.
IsInput(s) ==
    \E n \in 1..MaxNodes :
        IF n = 1 THEN \E win \in BOOLEAN : s = Terminal(win)
        ELSE \E k \in 1..min(MaxMoves, n - 1) :
                \E f \in Forests(n - 1, k) : \E p \in Orders(k) :
                    s = Position(Label(p, f))

VARIABLES
    state,            \* the position choose was called with
    pc,               \* "idle" before the call of choose, "run", "done"
    stack,            \* the activation records of alphabeta, innermost last
    ret,              \* <<>>, or <<triple>>: the triple the last call returned
    best_score,       \* choose's best_score (line 43)
    optimal_action,   \* what choose returns (line 44)
    root_depth,       \* the third component choose discards (line 43)
    skipped,          \* history: transitions left unexamined by break so far
    run,              \* 1 for the call on state as given, 2 for the re-enumerated one
    first             \* the action the first call returned, once run = 2

vars == <<state, pc, stack, ret, best_score, optimal_action, root_depth, skipped, run, first>>

(***************************************************************************)
(* The pure parts of alphabeta.                                            *)
(***************************************************************************)

\* Lines 73-80 with the win test flipped.
terminal_value_flipped(check_win, check_tie, is_max, is_min, node_depth) ==
    IF check_tie THEN <<Tie, None, node_depth>>
    ELSE IF is_max /\ ~is_min THEN <<Win, None, node_depth>>
    ELSE <<Loss, None, node_depth>>

\* Lines 73-80: the triple returned for a tie or a win.
terminal_value(check_win, check_tie, is_max, is_min, node_depth) ==
    IF check_tie THEN <<Tie, None, node_depth>>
    ELSE IF ~is_max /\ is_min THEN <<Win, None, node_depth>>
    ELSE <<Loss, None, node_depth>>

\* Lines 104 and 124 with the comparison turned round.
prune_reversed(a, B) == a <= B

\* Lines 104 and 124 with a strict comparison.
prune_strict(a, B) == B < a

\* Lines 104 and 124: the test that breaks out of the loop.
prune(a, B) == B <= a

\* Lines 154-161 keeping the old score when the candidate is better.
best_choice_max_stale(utility_score, bs, action, optimal_move, new_depth, lowest_depth) ==
    IF utility_score > bs THEN <<bs, action, new_depth>>
    ELSE IF utility_score = bs /\ new_depth < lowest_depth
         THEN <<utility_score, action, new_depth>>
    ELSE IF utility_score = bs /\ new_depth = lowest_depth /\ action < optimal_move
         THEN <<bs, action, lowest_depth>>
    ELSE <<bs, optimal_move, lowest_depth>>

\* Lines 154-161 with rule 3 not asking for equal depths.
best_choice_max_anydepth(utility_score, bs, action, optimal_move, new_depth, lowest_depth) ==
    IF utility_score > bs THEN <<utility_score, action, new_depth>>
    ELSE IF utility_score = bs /\ new_depth < lowest_depth
         THEN <<utility_score, action, new_depth>>
    ELSE IF utility_score = bs /\ action < optimal_move
         THEN <<bs, action, lowest_depth>>
    ELSE <<bs, optimal_move, lowest_depth>>

\* Lines 154-161.
best_choice_max(utility_score, bs, action, optimal_move, new_depth, lowest_depth) ==
    IF utility_score > bs THEN <<utility_score, action, new_depth>>
    ELSE IF utility_score = bs /\ new_depth < lowest_depth
         THEN <<utility_score, action, new_depth>>
    ELSE IF utility_score = bs /\ new_depth = lowest_depth /\ action < optimal_move
         THEN <<bs, action, lowest_depth>>
    ELSE <<bs, optimal_move, lowest_depth>>

\* Lines 187-194.
best_choice_min(utility_score, bs, action, optimal_move, new_depth, lowest_depth) ==
    IF utility_score < bs THEN <<utility_score, action, new_depth>>
    ELSE IF utility_score = bs /\ new_depth < lowest_depth
         THEN <<utility_score, action, new_depth>>
    ELSE IF utility_score = bs /\ new_depth = lowest_depth /\ action < optimal_move
         THEN <<bs, action, lowest_depth>>
    ELSE <<bs, optimal_move, lowest_depth>>

\* Line 44 returning the first component of the triple.
choose_return_score(score, action, depth) == score

\* Lines 43-44: of the triple of the root call, choose returns the action.
choose_return(score, action, depth) == action

(***************************************************************************)
(* Activation records.  fpc is the place the call is at: "entry" (line     *)
(* 70), "max_loop" / "min_loop" (the head of the for loop, lines 90 and    *)
(* 111), "max_wait" / "min_wait" (inside the recursive call, lines 94 and  *)
(* 115), "max_break" / "min_break" (lines 105 and 125).  a0, B0 and        *)
(* examined are history: the window the call was entered with and, per     *)
(* child examined, the action, the utility and depth its call returned     *)
(* and the window after the update.                                        *)
(***************************************************************************)
Frame(s, a, B, is_max, is_min, node_depth) ==
    [state |-> s, a |-> a, B |-> B, is_max |-> is_max, is_min |-> is_min,
     node_depth |-> node_depth, fpc |-> "entry",
     moves |-> <<>>, i |-> 0,
     best_score |-> 0, optimal_move |-> None, lowest_depth |-> node_depth,
     a0 |-> a, B0 |-> B, examined |-> <<>>]

Top == stack[Len(stack)]
Below == SubSeq(stack, 1, Len(stack) - 1)
SetTop(f) == [stack EXCEPT ![Len(stack)] = f]

Init ==
    /\ IsInput(state)
    /\ pc = "idle"
    /\ stack = <<>>
    /\ ret = <<>>
    /\ best_score = 0
    /\ optimal_action = None
    /\ root_depth = 0
    /\ skipped = 0
    /\ run = 1
    /\ first = None

\* choose, lines 38-43: the root call alphabeta(state, -inf, inf, True, False, 0).
Choose ==
    /\ pc = "idle"
    /\ pc' = "run"
    /\ stack' = <<Frame(state, NegInf, PosInf, TRUE, FALSE, 0)>>
    /\ UNCHANGED <<state, ret, best_score, optimal_action, root_depth, skipped, run, first>>

\* alphabeta, lines 70-80: a tie or a win returns at once.
ReturnTerminal ==
    /\ pc = "run" /\ stack # <<>> /\ Top.fpc = "entry"
    /\ is_tie(Top.state) \/ is_win(Top.state)
    /\ ret' = <<terminal_value(is_win(Top.state), is_tie(Top.state),
                               Top.is_max, Top.is_min, Top.node_depth)>>
    /\ stack' = Below
    /\ UNCHANGED <<state, pc, best_score, optimal_action, root_depth, skipped, run, first>>

\* alphabeta, lines 83-89 and 109-110 (and 128 when neither branch is taken).
Expand ==
    /\ pc = "run" /\ stack # <<>> /\ Top.fpc = "entry"
    /\ ~is_tie(Top.state) /\ ~is_win(Top.state)
    /\ LET f == [Top EXCEPT !.moves = get_transitions(Top.state),
                            !.optimal_move = None,
                            !.lowest_depth = Top.node_depth,
                            !.i = 1]
       IN IF Top.is_max /\ ~Top.is_min
          THEN /\ stack' = SetTop([f EXCEPT !.best_score = NegInf, !.fpc = "max_loop"])
               /\ ret' = ret
          ELSE IF Top.is_min /\ ~Top.is_max
          THEN /\ stack' = SetTop([f EXCEPT !.best_score = PosInf, !.fpc = "min_loop"])
               /\ ret' = ret
          ELSE /\ stack' = Below
               /\ ret' = <<<<Loss, None, Top.node_depth>>>>
    /\ UNCHANGED <<state, pc, best_score, optimal_action, root_depth, skipped, run, first>>

\* alphabeta, lines 90-94: the next child of a max node is passed to alphabeta.
RecurseMax ==
    /\ pc = "run" /\ stack # <<>> /\ Top.fpc = "max_loop"
    /\ Top.i <= Len(Top.moves)
    /\ LET f == [Top EXCEPT !.is_max = FALSE, !.is_min = TRUE, !.fpc = "max_wait"]
           child == Top.moves[Top.i][2]
       IN stack' = Append(SetTop(f),
                          Frame(child, f.a, f.B, f.is_max, f.is_min, f.node_depth + 1))
    /\ UNCHANGED <<state, pc, ret, best_score, optimal_action, root_depth, skipped, run, first>>

\* alphabeta, lines 111-115: the next child of a min node is passed to alphabeta.
RecurseMin ==
    /\ pc = "run" /\ stack # <<>> /\ Top.fpc = "min_loop"
    /\ Top.i <= Len(Top.moves)
    /\ LET f == [Top EXCEPT !.is_min = FALSE, !.is_max = TRUE, !.fpc = "min_wait"]
           child == Top.moves[Top.i][2]
       IN stack' = Append(SetTop(f),
                          Frame(child, f.a, f.B, f.is_max, f.is_min, f.node_depth + 1))
    /\ UNCHANGED <<state, pc, ret, best_score, optimal_action, root_depth, skipped, run, first>>

\* alphabeta, lines 94-105: the child's triple is combined, a raised, the window tested.
CombineMax ==
    /\ pc = "run" /\ stack # <<>> /\ Top.fpc = "max_wait" /\ ret # <<>>
    /\ LET utility_score == ret[1][1]
           new_depth == ret[1][3]
           action == Top.moves[Top.i][1]
           best == best_choice_max(utility_score, Top.best_score, action,
                                   Top.optimal_move, new_depth, Top.lowest_depth)
           a == max(Top.a, best[1])
       IN stack' = SetTop([Top EXCEPT
                !.best_score = best[1], !.optimal_move = best[2], !.lowest_depth = best[3],
                !.a = a,
                !.i = Top.i + 1,
                !.fpc = IF prune(a, Top.B) THEN "max_break" ELSE "max_loop",
                !.examined = Append(Top.examined,
                    [action |-> action, utility |-> utility_score, depth |-> new_depth,
                     a |-> a, B |-> Top.B])])
    /\ ret' = <<>>
    /\ UNCHANGED <<state, pc, best_score, optimal_action, root_depth, skipped, run, first>>

\* alphabeta, lines 115-125: the child's triple is combined, B lowered, the window tested.
CombineMin ==
    /\ pc = "run" /\ stack # <<>> /\ Top.fpc = "min_wait" /\ ret # <<>>
    /\ LET utility_score == ret[1][1]
           new_depth == ret[1][3]
           action == Top.moves[Top.i][1]
           best == best_choice_min(utility_score, Top.best_score, action,
                                   Top.optimal_move, new_depth, Top.lowest_depth)
           B == min(Top.B, best[1])
       IN stack' = SetTop([Top EXCEPT
                !.best_score = best[1], !.optimal_move = best[2], !.lowest_depth = best[3],
                !.B = B,
                !.i = Top.i + 1,
                !.fpc = IF prune(Top.a, B) THEN "min_break" ELSE "min_loop",
                !.examined = Append(Top.examined,
                    [action |-> action, utility |-> utility_score, depth |-> new_depth,
                     a |-> Top.a, B |-> B])])
    /\ ret' = <<>>
    /\ UNCHANGED <<state, pc, best_score, optimal_action, root_depth, skipped, run, first>>

\* alphabeta, lines 106 and 126: after the loop ran out of children, or after break.
Return ==
    /\ pc = "run" /\ stack # <<>>
    /\ \/ Top.fpc \in {"max_break", "min_break"}
       \/ Top.fpc \in {"max_loop", "min_loop"} /\ Top.i > Len(Top.moves)
    /\ ret' = <<<<Top.best_score, Top.optimal_move, Top.lowest_depth>>>>
    /\ stack' = Below
    /\ skipped' = skipped + (Len(Top.moves) + 1 - Top.i)
    /\ UNCHANGED <<state, pc, best_score, optimal_action, root_depth, run, first>>

\* choose, lines 43-44: the root call's triple is unpacked and the action returned.
Finish ==
    /\ pc = "run" /\ stack = <<>> /\ ret # <<>>
    /\ best_score' = ret[1][1]
    /\ optimal_action' = choose_return(ret[1][1], ret[1][2], ret[1][3])
    /\ root_depth' = ret[1][3]
    /\ ret' = <<>>
    /\ pc' = "done"
    /\ UNCHANGED <<state, stack, skipped, run, first>>

Next ==
    \/ Choose
    \/ ReturnTerminal
    \/ Expand
    \/ RecurseMax
    \/ RecurseMin
    \/ CombineMax
    \/ CombineMin
    \/ Return
    \/ Finish

Spec == Init /\ [][Next]_vars

(***************************************************************************)
(* A second call of choose on the same position, its transitions now       *)
(* enumerated in ascending order of action at every node.                  *)
(***************************************************************************)
RECURSIVE Canon(_)
Canon(s) ==
    LET m == get_transitions(s)
        Rank(j) == Cardinality({k \in 1..Len(m) : m[k][1] < m[j][1]}) + 1
    IN [s EXCEPT !.moves =
            [r \in 1..Len(m) |->
                LET j == CHOOSE j \in 1..Len(m) : Rank(j) = r
                IN <<m[j][1], Canon(m[j][2])>>]]

Reenumerate ==
    /\ pc = "done" /\ run = 1
    /\ run' = 2
    /\ first' = optimal_action
    /\ state' = Canon(state)
    /\ pc' = "idle"
    /\ best_score' = 0
    /\ optimal_action' = None
    /\ root_depth' = 0
    /\ skipped' = 0
    /\ UNCHANGED <<stack, ret>>

SpecPerm == Init /\ [][Next \/ Reenumerate]_vars

(***************************************************************************)
(* Reference semantics the claims compare the search with.                 *)
(***************************************************************************)
NonTerminal(s) == ~is_win(s) /\ ~is_tie(s)
Done == pc = "done"

SetMax(S) == CHOOSE x \in S : \A y \in S : y <= x
SetMin(S) == CHOOSE x \in S : \A y \in S : x <= y

RECURSIVE Minimax(_, _)
\* Exhaustive minimax value of s: a tie is worth 0.5, a win found at a min
\* node 1, a win found at a max node 0.
Minimax(s, is_max) ==
    IF is_tie(s) THEN Tie
    ELSE IF is_win(s) THEN (IF is_max THEN Loss ELSE Win)
    ELSE LET vals == {Minimax(get_transitions(s)[k][2], ~is_max)
                        : k \in 1..Len(get_transitions(s))}
         IN IF is_max THEN SetMax(vals) ELSE SetMin(vals)

RECURSIVE Exhaustive(_, _, _), ExhaustiveLoop(_, _, _, _, _)
\* The same search with the same tie-break rules, every child of every node
\* examined: the window never narrows and no break is taken.
Exhaustive(s, is_max, node_depth) ==
    IF is_tie(s) \/ is_win(s)
    THEN terminal_value(is_win(s), is_tie(s), is_max, ~is_max, node_depth)
    ELSE ExhaustiveLoop(get_transitions(s), 1, is_max, node_depth,
                        <<IF is_max THEN NegInf ELSE PosInf, None, node_depth>>)
ExhaustiveLoop(moves, k, is_max, node_depth, acc) ==
    IF k > Len(moves) THEN acc
    ELSE LET r == Exhaustive(moves[k][2], ~is_max, node_depth + 1)
         IN ExhaustiveLoop(moves, k + 1, is_max, node_depth,
                IF is_max
                THEN best_choice_max(r[1], acc[1], moves[k][1], acc[2], r[3], acc[3])
                ELSE best_choice_min(r[1], acc[1], moves[k][1], acc[2], r[3], acc[3]))

\* What the exhaustive search reports for the subtree below each root transition.
RootMoves == get_transitions(state)
RootReport(k) == Exhaustive(RootMoves[k][2], FALSE, 1)
\* The root transitions whose subtree has the root's optimal utility, and
\* among them those whose decisive terminal is nearest.
OptimalMoves == {k \in 1..Len(RootMoves) : RootReport(k)[1] = Minimax(state, TRUE)}
NearestOptimalMoves ==
    {k \in OptimalMoves : \A j \in OptimalMoves : RootReport(k)[3] <= RootReport(j)[3]}
\* The root transitions that complete a winning line at once.
WinningMoves ==
    {k \in 1..Len(RootMoves) : is_win(RootMoves[k][2]) /\ ~is_tie(RootMoves[k][2])}

\* The frames of calls that are past the terminal test.
Expanded == {k \in 1..Len(stack) : stack[k].fpc # "entry"}
IsMaxFrame(f) == f.fpc \in {"max_loop", "max_wait", "max_break"}
Broke(f) == f.fpc \in {"max_break", "min_break"}
\* Entry x of a node's examined children is at least as good as entry y:
\* better utility for the node's player, then smaller depth, then smaller action.
AsGood(f, x, y) ==
    \/ IF IsMaxFrame(f) THEN x.utility > y.utility ELSE x.utility < y.utility
    \/ /\ x.utility = y.utility
       /\ \/ x.depth < y.depth
          \/ x.depth = y.depth /\ x.action <= y.action

(***************************************************************************)
(* The claims.                                                             *)
(***************************************************************************)

\* C1: for a non-terminal state, the utility the root call
\* alphabeta(s, -inf, +inf, True, False, 0) returns is the exhaustive
\* minimax value of s.
C1_RootUtilityIsMinimax ==
    (Done /\ NonTerminal(state)) => best_score = Minimax(state, TRUE)

\* C1 witness: a finished search of a non-terminal state in which a break
\* left transitions unexamined and the utility is the minimax value.
C1_Witness ==
    /\ Done /\ NonTerminal(state) /\ skipped > 0
    /\ best_score = Minimax(state, TRUE)

\* C2: the (utility, action) pair of the pruning search is the pair of the
\* same search with no pruning.
C2_PruningEquivalence ==
    (Done /\ NonTerminal(state)) =>
        <<best_score, optimal_action>> =
            <<Exhaustive(state, TRUE, 0)[1], Exhaustive(state, TRUE, 0)[2]>>

\* C3: choose returns None for every state on which is_win() or is_tie() holds.
C3_TerminalReturnsNone ==
    (Done /\ (is_win(state) \/ is_tie(state))) => optimal_action = None

\* C3 witness: choose has returned on a won position.
C3_Witness == Done /\ is_win(state) /\ optimal_action = None

C5_LeastActionChosen ==
    (Done /\ NonTerminal(state)) =>
        /\ \E k \in NearestOptimalMoves : RootMoves[k][1] = optimal_action
        /\ \A k \in NearestOptimalMoves : optimal_action <= RootMoves[k][1]

\* C6: when some root transition leads to a won, untied state, the root
\* search returns utility 1 at depth 1 and choose returns such a transition's action.
C6_ImmediateWinTaken ==
    (Done /\ NonTerminal(state) /\ WinningMoves # {}) =>
        /\ best_score = Win
        /\ root_depth = 1
        /\ \E k \in WinningMoves : RootMoves[k][1] = optimal_action

\* C6 witness: the winning move is enumerated last, behind a non-terminal
\* sibling, and is the one returned.
C6_Witness ==
    /\ Done /\ NonTerminal(state) /\ Len(RootMoves) >= 2
    /\ WinningMoves = {Len(RootMoves)}
    /\ NonTerminal(RootMoves[1][2])
    /\ optimal_action = RootMoves[Len(RootMoves)][1]
    /\ best_score = Win /\ root_depth = 1

\* C7: the action choose returns does not depend on the order in which
\* get_transitions() enumerates the transitions: the call on the position
\* enumerated in ascending order returns what the call on the position as given returned.
C7_EnumerationOrderIrrelevant ==
    (Done /\ run = 2) => optimal_action = first

\* C8: children are examined one at a time in enumeration order, a (at a max
\* node) or B (at a min node) is updated after each child, no child is passed
\* to alphabeta once B <= a held after a child, and the node then returns the best
\* triple among the children examined.
C8_FrameInv ==
    \A k \in Expanded :
        LET f == stack[k]
            e == f.examined
            n == Len(e)
        IN /\ n = f.i - 1
           /\ \A j \in 1..n : e[j].action = f.moves[j][1]
           /\ \A j \in 1..(n - 1) : e[j].B > e[j].a
           /\ (n > 0 /\ e[n].B <= e[n].a) => Broke(f)
           /\ n > 0 =>
                /\ IF IsMaxFrame(f)
                   THEN f.a = max(f.a0, f.best_score) /\ f.B = f.B0
                   ELSE f.B = min(f.B0, f.best_score) /\ f.a = f.a0
                /\ e[n].a = f.a /\ e[n].B = f.B
                /\ \E j \in 1..n :
                    /\ <<e[j].utility, e[j].action, e[j].depth>>
                         = <<f.best_score, f.optimal_move, f.lowest_depth>>
                    /\ \A h \in 1..n : AsGood(f, e[j], e[h])
C8_BreakReturns ==
    (stack # <<>> /\ Broke(Top)) =>
        /\ stack' = Below
        /\ ret' = <<<<Top.best_score, Top.optimal_move, Top.lowest_depth>>>>
C8_PruningStopsEnumeration == [](C8_FrameInv) /\ [][C8_BreakReturns]_vars

\* C8 witness: a node has broken out of its loop with transitions left.
C8_Witness ==
    /\ stack # <<>> /\ Broke(Top) /\ Top.i <= Len(Top.moves)

\* C9: every utility alphabeta returns is 0, 0.5 or 1; the initial best
\* scores -inf and +inf do not survive the first child.
C9_UtilitiesAreExact ==
    /\ ret # <<>> => ret[1][1] \in Utilities
    /\ \A k \in Expanded :
            Len(stack[k].examined) > 0 => stack[k].best_score \in Utilities

\* C9 witness: a non-terminal call below the root has just returned its triple.
C9_Witness ==
    /\ stack # <<>> /\ ret # <<>> /\ ret[1][2] # None /\ ret[1][1] \in Utilities

\* C10: the utility and depth a non-terminal call returns are those the call
\* on the child reached by the returned action reported.
C10_ReturnStep ==
    (stack # <<>> /\ Top.fpc # "entry" /\ Len(Top.moves) >= 1 /\ Len(stack') < Len(stack)) =>
        /\ ret' # <<>>
        /\ \E j \in 1..Len(Top.examined) :
            /\ Top.examined[j].action = ret'[1][2]
            /\ Top.examined[j].utility = ret'[1][1]
            /\ Top.examined[j].depth = ret'[1][3]
C10_DepthBelongsToAction == [][C10_ReturnStep]_vars

\* C10 witness: rule 3 has fired: the action held is that of a later child
\* whose utility and depth equal those of an earlier child with a larger action.
C10_Witness ==
    /\ stack # <<>> /\ Top.fpc \in {"max_loop", "min_loop", "max_break", "min_break"}
    /\ \E j, h \in 1..Len(Top.examined) :
        /\ j < h
        /\ Top.examined[h].action = Top.optimal_move
        /\ Top.examined[h].action < Top.examined[j].action
        /\ Top.examined[h].utility = Top.examined[j].utility
        /\ Top.examined[h].depth = Top.examined[j].depth
        /\ Top.examined[h].utility = Top.best_score
        /\ Top.examined[h].depth = Top.lowest_depth

====
